---- MODULE Spec2Model ----
(***************************************************************************)
(* The opening handshake of socket-flow: src/src/handshake.rs              *)
(* (accept_async, connect_async, header_read, parse_websocket_key, the key *)
(* codec, second_stage_handshake) and src/src/request.rs                   *)
(* (parse_to_http_request).                                                *)
(*                                                                         *)
(* Text is a sequence of one-character strings, one element per byte.  A   *)
(* byte that is not valid UTF-8 on its own is written "<FF>" or "<81>",    *)
(* an ASCII control byte "<02>".                                           *)
(***************************************************************************)
EXTENDS Integers, Sequences, FiniteSets, TLC

Min(a, b) == IF a < b THEN a ELSE b

\* Option<T>: None is the empty sequence, Some(v) the one-element sequence.
None == << >>
Some(v) == <<v>>
IsSome(o) == o # None
Unwrap(o) == o[1]

CR == "\r"
LF == "\n"
CRLF == <<CR, LF>>

(***************************************************************************)
(* The constants of handshake.rs.                                          *)
(***************************************************************************)
SEC_WEBSOCKETS_KEY == <<"S", "e", "c", "-", "W", "e", "b", "S", "o", "c", "k", "e", "t", "-",
    "K", "e", "y", ":">>
UUID == <<"2", "5", "8", "E", "A", "F", "A", "5", "-", "E", "9", "1", "4", "-", "4", "7", "D",
    "A", "-", "9", "5", "C", "A", "-", "C", "5", "A", "B", "0", "D", "C", "8", "5", "B", "1",
    "1">>
SWITCHING_PROTOCOLS == <<"1", "0", "1", " ", "S", "w", "i", "t", "c", "h", "i", "n", "g", " ",
    "P", "r", "o", "t", "o", "c", "o", "l", "s">>

\* HTTP_ACCEPT_RESPONSE up to its {} placeholder, and after it.
HTTP_ACCEPT_RESPONSE_HEAD == <<"H", "T", "T", "P", "/", "1", ".", "1", " ", "1", "0", "1", " ",
    "S", "w", "i", "t", "c", "h", "i", "n", "g", " ", "P", "r", "o", "t", "o", "c", "o", "l", "s",
    "\r", "\n", "C", "o", "n", "n", "e", "c", "t", "i", "o", "n", ":", " ", "U", "p", "g", "r",
    "a", "d", "e", "\r", "\n", "U", "p", "g", "r", "a", "d", "e", ":", " ", "w", "e", "b", "s",
    "o", "c", "k", "e", "t", "\r", "\n", "S", "e", "c", "-", "W", "e", "b", "S", "o", "c", "k",
    "e", "t", "-", "A", "c", "c", "e", "p", "t", ":", " ">>
HTTP_ACCEPT_RESPONSE_TAIL == CRLF \o CRLF
\* HTTP_ACCEPT_RESPONSE.replace("{}", &accept_value)
HTTP_ACCEPT_RESPONSE(accept_value) ==
    HTTP_ACCEPT_RESPONSE_HEAD \o accept_value \o HTTP_ACCEPT_RESPONSE_TAIL

\* vec![0; 206]: the client's response buffer.
RESPONSE_BUF_LEN == 206
\* BytesMut::with_capacity(1024 * 16), while header_buf.len() <= 1024 * 16
HEADER_CAP == 1024 * 16
\* vec![0; 1024]: the server's per-read buffer.
TMP_BUF_LEN == 1024
\* tokio's BufReader::new: an internal buffer of 8 KiB.
BUFREADER_CAP == 8 * 1024

(***************************************************************************)
(* str and byte-slice operations of the Rust standard library, as the      *)
(* handshake uses them.                                                    *)
(***************************************************************************)
\* Bytes that never form valid UTF-8 by themselves.
InvalidUtf8 == {"<FF>", "<81>"}
REPLACEMENT_CHARACTER == "<U+FFFD>"

\* String::from_utf8(bytes).is_ok()
IsUtf8(bytes) == \A i \in 1..Len(bytes) : bytes[i] \notin InvalidUtf8

\* String::from_utf8_lossy(bytes)
from_utf8_lossy(bytes) ==
    [i \in 1..Len(bytes) |-> IF bytes[i] \in InvalidUtf8 THEN REPLACEMENT_CHARACTER ELSE bytes[i]]

\* s[i..] starts with pat (i counted from 1)
MatchAt(s, pat, i) ==
    /\ i + Len(pat) - 1 <= Len(s)
    /\ \A j \in 1..Len(pat) : s[i + j - 1] = pat[j]

\* str::find(pat): the first position (from 1) where pat occurs, 0 for None.
Find(s, pat) ==
    LET hits == {i \in 1..(Len(s) - Len(pat) + 1) : MatchAt(s, pat, i)}
    IN  IF hits = {} THEN 0 ELSE CHOOSE i \in hits : \A k \in hits : i <= k

\* str::contains(pat)
Contains(s, pat) == Find(s, pat) # 0

\* str::starts_with(pat)
StartsWith(s, pat) == MatchAt(s, pat, 1)

\* str::strip_prefix(pat), for a string that starts with pat
StripPrefix(s, pat) == SubSeq(s, Len(pat) + 1, Len(s))

\* s[start..] (start counted from 1)
From(s, start) == SubSeq(s, start, Len(s))

\* One line of str::lines(): the text before the first "\n", with one "\r"
\* before that "\n" removed; the last line, which has no "\n", is kept whole.
FirstLine(s) ==
    LET nl == Find(s, <<LF>>)
    IN  IF nl = 0 THEN s
        ELSE IF nl > 1 /\ s[nl - 1] = CR THEN SubSeq(s, 1, nl - 2)
        ELSE SubSeq(s, 1, nl - 1)

\* str::lines()
RECURSIVE Lines(_)
Lines(s) ==
    IF s = << >> THEN << >>
    ELSE LET nl == Find(s, <<LF>>)
         IN  IF nl = 0 THEN <<s>> ELSE <<FirstLine(s)>> \o Lines(From(s, nl + 1))

\* char::is_whitespace, for the bytes that occur
IsWhitespace(c) == c \in {" ", "\t", CR, LF}

\* str::split_whitespace().next()
FirstToken(s) ==
    LET starts == {i \in 1..Len(s) : ~IsWhitespace(s[i])}
    IN  IF starts = {} THEN None
        ELSE LET b == CHOOSE i \in starts : \A k \in starts : i <= k
                 stops == {i \in b..Len(s) : IsWhitespace(s[i])}
                 e == IF stops = {} THEN Len(s) + 1
                      ELSE CHOOSE i \in stops : \A k \in stops : i <= k
             IN  Some(SubSeq(s, b, e - 1))

(***************************************************************************)
(* Key codec: SHA-1 and base64, computed as the sha1 and base64 crates do. *)
(* A 32-bit word is the pair <<high 16 bits, low 16 bits>>.                *)
(***************************************************************************)
Ascii == <<" ", "!", "\"", "#", "$", "%", "&", "'", "(", ")", "*", "+", ",", "-", ".", "/",
    "0", "1", "2", "3", "4", "5", "6", "7", "8", "9", ":", ";", "<", "=", ">", "?", "@", "A",
    "B", "C", "D", "E", "F", "G", "H", "I", "J", "K", "L", "M", "N", "O", "P", "Q", "R", "S",
    "T", "U", "V", "W", "X", "Y", "Z", "[", "\\", "]", "^", "_", "<60>", "a", "b", "c", "d", "e",
    "f", "g", "h", "i", "j", "k", "l", "m", "n", "o", "p", "q", "r", "s", "t", "u", "v", "w",
    "x", "y", "z", "{", "|", "}", "~">>

\* The byte value of a printable ASCII character, CR or LF ("<60>" is the grave
\* accent, which the lexer does not take in a string).
Ord(c) == IF c = CR THEN 13 ELSE IF c = LF THEN 10
          ELSE 31 + (CHOOSE i \in 1..Len(Ascii) : Ascii[i] = c)

\* str::as_bytes()
as_bytes(s) == SubSeq([i \in 1..Len(s) |-> Ord(s[i])], 1, Len(s))

RECURSIVE XorBits(_, _)
XorBits(a, b) == IF a = 0 THEN b ELSE IF b = 0 THEN a
                 ELSE (((a % 2) + (b % 2)) % 2) + 2 * XorBits(a \div 2, b \div 2)
RECURSIVE AndBits(_, _)
AndBits(a, b) == IF a = 0 \/ b = 0 THEN 0
                 ELSE ((a % 2) * (b % 2)) + 2 * AndBits(a \div 2, b \div 2)
\* Bitwise tables on 4-bit values.
XorNib == [a \in 0..15 |-> [b \in 0..15 |-> XorBits(a, b)]]
AndNib == [a \in 0..15 |-> [b \in 0..15 |-> AndBits(a, b)]]
Xor16(a, b) == XorNib[a % 16][b % 16] + 16 * XorNib[(a \div 16) % 16][(b \div 16) % 16]
               + 256 * XorNib[(a \div 256) % 16][(b \div 256) % 16]
               + 4096 * XorNib[a \div 4096][b \div 4096]
And16(a, b) == AndNib[a % 16][b % 16] + 16 * AndNib[(a \div 16) % 16][(b \div 16) % 16]
               + 256 * AndNib[(a \div 256) % 16][(b \div 256) % 16]
               + 4096 * AndNib[a \div 4096][b \div 4096]
Not16(a) == 65535 - a
Xor32(p, q) == <<Xor16(p[1], q[1]), Xor16(p[2], q[2])>>
And32(p, q) == <<And16(p[1], q[1]), And16(p[2], q[2])>>
Not32(p) == <<Not16(p[1]), Not16(p[2])>>
Or32(p, q) == Xor32(Xor32(p, q), And32(p, q))
\* wrapping_add on u32
Add32(p, q) == LET lo == p[2] + q[2]
                   hi == p[1] + q[1] + (lo \div 65536)
               IN  <<hi % 65536, lo % 65536>>
Pow2 == <<1, 2, 4, 8, 16, 32, 64, 128, 256, 512, 1024, 2048, 4096, 8192, 16384, 32768, 65536>>
RotlSmall(p, n) ==
    IF n = 0 THEN p
    ELSE <<(p[1] % Pow2[17 - n]) * Pow2[n + 1] + (p[2] \div Pow2[17 - n]),
           (p[2] % Pow2[17 - n]) * Pow2[n + 1] + (p[1] \div Pow2[17 - n])>>
\* u32::rotate_left(n)
Rotl32(p, n) == IF n < 16 THEN RotlSmall(p, n) ELSE RotlSmall(<<p[2], p[1]>>, n - 16)

\* SHA-1 padding: 0x80, zeros, the bit length as a 64-bit big-endian number.
Sha1Pad(msg) ==
    LET l == Len(msg)
        bits == l * 8
    IN  msg \o <<128>> \o [i \in 1..((119 - l) % 64) |-> 0]
            \o <<0, 0, 0, 0, (bits \div 16777216) % 256, (bits \div 65536) % 256,
                 (bits \div 256) % 256, bits % 256>>
Sha1WordAt(m, i) == <<m[i] * 256 + m[i + 1], m[i + 2] * 256 + m[i + 3]>>
\* The message schedule: w[t] = rotl1(w[t-3] ^ w[t-8] ^ w[t-14] ^ w[t-16]).
Sha1ExpandStep(w, t) ==
    Append(w, Rotl32(Xor32(Xor32(w[t - 3], w[t - 8]), Xor32(w[t - 14], w[t - 16])), 1))
RECURSIVE Sha1ExpandRange(_, _, _)
Sha1ExpandRange(w, lo, hi) ==
    IF Len(w) = lo - 1 /\ lo = hi THEN Sha1ExpandStep(w, lo)
    ELSE LET mid == (lo + hi) \div 2
         IN  Sha1ExpandRange(Sha1ExpandRange(w, lo, mid), mid + 1, hi)
Sha1F(t, b, c, d) ==
    IF t < 20 THEN Or32(And32(b, c), And32(Not32(b), d))
    ELSE IF t < 40 THEN Xor32(Xor32(b, c), d)
    ELSE IF t < 60 THEN Or32(Or32(And32(b, c), And32(b, d)), And32(c, d))
    ELSE Xor32(Xor32(b, c), d)
\* 0x5A827999, 0x6ED9EBA1, 0x8F1BBCDC, 0xCA62C1D6
Sha1K(t) == IF t < 20 THEN <<23170, 31129>> ELSE IF t < 40 THEN <<28377, 60321>>
            ELSE IF t < 60 THEN <<36635, 48348>> ELSE <<51810, 49622>>
Sha1Round(h, w, t) ==
    LET tmp == Add32(Add32(Add32(Add32(Rotl32(h[1], 5), Sha1F(t, h[2], h[3], h[4])), h[5]),
                           Sha1K(t)), w[t + 1])
    IN  <<tmp, h[1], Rotl32(h[2], 30), h[3], h[4]>>
\* Rounds lo..hi, by halves (the state of each half is computed before the next).
RECURSIVE Sha1RoundRange(_, _, _, _)
Sha1RoundRange(h, w, lo, hi) ==
    IF Len(h) = 5 /\ lo = hi THEN Sha1Round(h, w, lo)
    ELSE LET mid == (lo + hi) \div 2
         IN  Sha1RoundRange(Sha1RoundRange(h, w, lo, mid), w, mid + 1, hi)
Sha1Block(h, m, off) ==
    LET w0 == SubSeq([i \in 1..16 |-> Sha1WordAt(m, off + 4 * (i - 1) + 1)], 1, 16)
        w == Sha1ExpandRange(w0, 17, 80)
        r == Sha1RoundRange(h, w, 0, 79)
    IN  <<Add32(h[1], r[1]), Add32(h[2], r[2]), Add32(h[3], r[3]), Add32(h[4], r[4]),
          Add32(h[5], r[5])>>
RECURSIVE Sha1Blocks(_, _, _)
Sha1Blocks(h, m, off) ==
    IF off >= Len(m) THEN h ELSE Sha1Blocks(Sha1Block(h, m, off), m, off + 64)
\* 0x67452301, 0xEFCDAB89, 0x98BADCFE, 0x10325476, 0xC3D2E1F0
Sha1H0 == <<<<26437, 8961>>, <<61389, 43913>>, <<39098, 56574>>, <<4146, 21622>>,
            <<50130, 57840>>>>
WordBytes(wd) == <<wd[1] \div 256, wd[1] % 256, wd[2] \div 256, wd[2] % 256>>
\* Sha1::new(); update(msg); finalize(): the 20 bytes of the digest
Sha1(msg) ==
    LET h == Sha1Blocks(Sha1H0, Sha1Pad(msg), 0)
    IN  WordBytes(h[1]) \o WordBytes(h[2]) \o WordBytes(h[3]) \o WordBytes(h[4])
            \o WordBytes(h[5])

Base64Alphabet == <<"A", "B", "C", "D", "E", "F", "G", "H", "I", "J", "K", "L", "M", "N", "O",
    "P", "Q", "R", "S", "T", "U", "V", "W", "X", "Y", "Z", "a", "b", "c", "d", "e", "f", "g",
    "h", "i", "j", "k", "l", "m", "n", "o", "p", "q", "r", "s", "t", "u", "v", "w", "x", "y",
    "z", "0", "1", "2", "3", "4", "5", "6", "7", "8", "9", "+", "/">>
\* The four characters of one group of up to three bytes (n of them present).
Base64Group(b1, b2, b3, n) ==
    <<Base64Alphabet[(b1 \div 4) + 1],
      Base64Alphabet[((b1 % 4) * 16 + (b2 \div 16)) + 1],
      IF n >= 2 THEN Base64Alphabet[((b2 % 16) * 4 + (b3 \div 64)) + 1] ELSE "=",
      IF n >= 3 THEN Base64Alphabet[(b3 % 64) + 1] ELSE "=">>
\* BASE64_STANDARD.encode(bytes)
RECURSIVE BASE64_STANDARD_encode(_)
BASE64_STANDARD_encode(bytes) ==
    IF Len(bytes) = 0 THEN << >>
    ELSE IF Len(bytes) = 1 THEN Base64Group(bytes[1], 0, 0, 1)
    ELSE IF Len(bytes) = 2 THEN Base64Group(bytes[1], bytes[2], 0, 2)
    ELSE Base64Group(bytes[1], bytes[2], bytes[3], 3)
             \o BASE64_STANDARD_encode(SubSeq(bytes, 4, Len(bytes)))

\* generate_websocket_accept_value, computed
AcceptValueOf(key) == BASE64_STANDARD_encode(Sha1(as_bytes(key) \o as_bytes(UUID)))


(***************************************************************************)
(* Key codec of handshake.rs.                                              *)
(***************************************************************************)
\* let random_bytes: [u8; 16] = random(): the arrays the model draws from
\* ("the sample nonce" of RFC 6455, and the bytes 1..16).
RandomBytes == {
    <<116, 104, 101, 32, 115, 97, 109, 112, 108, 101, 32, 110, 111, 110, 99, 101>>,
    <<1, 2, 3, 4, 5, 6, 7, 8, 9, 10, 11, 12, 13, 14, 15, 16>> }

generate_websocket_key(random_bytes) == BASE64_STANDARD_encode(random_bytes)

GeneratedKeys == {generate_websocket_key(rb) : rb \in RandomBytes}

\* The keys the scripted requests carry besides the generated ones.
ScriptedKeys == {<<"a", "b", "c">>, <<"z", "z", "z">>}

\* The accept values of these keys and of their prefixes, computed once.
AcceptCache ==
    LET keys == UNION {{SubSeq(k, 1, n) : n \in 1..Len(k)} : k \in GeneratedKeys \cup ScriptedKeys}
    IN  [k \in keys |-> AcceptValueOf(k)]

\* generate_websocket_accept_value(key): sha1 of key and UUID, in base64
generate_websocket_accept_value(key) == AcceptCache[key]

(***************************************************************************)
(* request.rs: parse_to_http_request.  A URL is given as the url crate     *)
(* parses it: [parses, scheme, host, port, path, query], host, port and    *)
(* query being Options.  When Url::parse refuses the text (parses is       *)
(* FALSE) the other fields say what the text holds.  For ws and wss, as    *)
(* for the other special schemes, Url::parse refuses a text without a      *)
(* host (EmptyHost): a parsed URL without a host has another scheme.       *)
(***************************************************************************)
RECURSIVE ToDecimal(_)
ToDecimal(n) ==
    LET digit == Ascii[17 + (n % 10)]
    IN  IF n < 10 THEN <<digit>> ELSE ToDecimal(n \div 10) \o <<digit>>

ReqGet == <<"G", "E", "T", " ">>
ReqHttp == <<" ", "H", "T", "T", "P", "/", "1", ".", "1", "\r", "\n", "H", "o", "s", "t", ":",
    " ">>
ReqUpgrade == <<"\r", "\n", "C", "o", "n", "n", "e", "c", "t", "i", "o", "n", ":", " ", "U",
    "p", "g", "r", "a", "d", "e", "\r", "\n", "U", "p", "g", "r", "a", "d", "e", ":", " ", "w",
    "e", "b", "s", "o", "c", "k", "e", "t", "\r", "\n", "S", "e", "c", "-", "W", "e", "b", "S",
    "o", "c", "k", "e", "t", "-", "K", "e", "y", ":", " ">>
ReqVersion == <<"\r", "\n", "S", "e", "c", "-", "W", "e", "b", "S", "o", "c", "k", "e", "t",
    "-", "V", "e", "r", "s", "i", "o", "n", ":", " ", "1", "3", "\r", "\n", "\r", "\n">>

\* format!("GET {} HTTP/1.1\r\nHost: {}\r\n...Sec-WebSocket-Key: {}\r\n...", path, host, key)
FormatRequest(request_path, host, key) ==
    ReqGet \o request_path \o ReqHttp \o host \o ReqUpgrade \o key \o ReqVersion

\* The port written in the URL is ignored: always the default of the scheme.
parse_to_http_request_default_port(url, key) ==
    IF ~url.parses THEN [err |-> "UrlParseError"]
    ELSE IF url.scheme \notin {"ws", "wss"} THEN [err |-> "InvalidSchemeURL"]
    ELSE IF ~IsSome(url.host) THEN [err |-> "URLNoHost"]
    ELSE LET request_path == IF IsSome(url.query)
                             THEN url.path \o <<"?">> \o Unwrap(url.query)
                             ELSE url.path
         IN  [err |-> "",
              request |-> FormatRequest(request_path, Unwrap(url.host), key),
              host_with_port |-> Unwrap(url.host) \o <<":">>
                                     \o ToDecimal(IF url.scheme = "ws" THEN 80 ELSE 443),
              host |-> Unwrap(url.host),
              use_tls |-> url.scheme = "wss"]

\* Err(e) is [err |-> e]; Ok is [err |-> "", request, host_with_port, host, use_tls].
parse_to_http_request(url, key) ==
    IF ~url.parses THEN [err |-> "UrlParseError"]
    ELSE IF url.scheme \notin {"ws", "wss"} THEN [err |-> "InvalidSchemeURL"]
    ELSE IF ~IsSome(url.host) THEN [err |-> "URLNoHost"]
    ELSE LET use_tls == url.scheme = "wss"
             http_port == IF url.scheme = "ws" THEN 80 ELSE 443
             host == Unwrap(url.host)
             port == IF IsSome(url.port) THEN Unwrap(url.port) ELSE http_port
             request_path == IF IsSome(url.query)
                             THEN url.path \o <<"?">> \o Unwrap(url.query)
                             ELSE url.path
         IN  [err |-> "",
              request |-> FormatRequest(request_path, host, key),
              host_with_port |-> host \o <<":">> \o ToDecimal(port),
              host |-> host,
              use_tls |-> use_tls]

ExampleCom == <<"e", "x", "a", "m", "p", "l", "e", ".", "c", "o", "m">>
ChatPath == <<"/", "c", "h", "a", "t">>

\* ws://example.com/chat?x=1
UrlWsChat == [parses |-> TRUE, scheme |-> "ws", host |-> Some(ExampleCom), port |-> None,
              path |-> ChatPath, query |-> Some(<<"x", "=", "1">>)]
\* wss://example.com/chat
UrlWssChat == [parses |-> TRUE, scheme |-> "wss", host |-> Some(ExampleCom), port |-> None,
               path |-> ChatPath, query |-> None]
\* ws://example.com:9002/
UrlWsPort == [parses |-> TRUE, scheme |-> "ws", host |-> Some(ExampleCom),
              port |-> Some(9002), path |-> <<"/">>, query |-> None]
\* wss://example.com:8443/chat?x=1
UrlWssPort == [parses |-> TRUE, scheme |-> "wss", host |-> Some(ExampleCom),
               port |-> Some(8443), path |-> ChatPath, query |-> Some(<<"x", "=", "1">>)]
\* http://example.com/
UrlHttp == [parses |-> TRUE, scheme |-> "http", host |-> Some(ExampleCom), port |-> None,
            path |-> <<"/">>, query |-> None]
\* ws:// : scheme ws and no host, which Url::parse refuses
UrlNoHost == [parses |-> FALSE, scheme |-> "ws", host |-> None, port |-> None,
              path |-> << >>, query |-> None]
\* mailto:a : another scheme, and a URL that has no host
UrlMailto == [parses |-> TRUE, scheme |-> "mailto", host |-> None, port |-> None,
              path |-> <<"a">>, query |-> None]
\* text that is no URL
UrlGarbage == [parses |-> FALSE, scheme |-> "", host |-> None, port |-> None,
               path |-> << >>, query |-> None]

Urls == {UrlWsChat, UrlWssChat, UrlWsPort, UrlWssPort, UrlHttp, UrlNoHost, UrlMailto,
         UrlGarbage}

(***************************************************************************)
(* Byte strings in flight and in buffers.  An inbound stream may start     *)
(* with a long run of one filler byte that is no part of the marker, so a  *)
(* byte string is [pad, text]: pad filler bytes, then the bytes of text.   *)
(***************************************************************************)
FILLER == "x"
Bytes(pad, text) == [pad |-> pad, text |-> text]
NoBytes == Bytes(0, << >>)
BLen(b) == b.pad + Len(b.text)
\* b[..n]
BTake(b, n) == IF n <= b.pad THEN Bytes(n, << >>)
               ELSE Bytes(b.pad, SubSeq(b.text, 1, n - b.pad))
\* b[n..]
BDrop(b, n) == IF n <= b.pad THEN Bytes(b.pad - n, b.text)
               ELSE Bytes(0, SubSeq(b.text, n - b.pad + 1, Len(b.text)))
\* a followed by b
BCat(a, b) == IF a.text = << >> THEN Bytes(a.pad + b.pad, b.text)
              ELSE Bytes(a.pad, a.text \o [i \in 1..b.pad |-> FILLER] \o b.text)

(***************************************************************************)
(* The state: one TCP connection, accept_async on its server end and       *)
(* connect_async on its client end.  In mode "loopback" the two run        *)
(* against each other; in mode "accept" the client end is a scripted peer  *)
(* and in mode "connect" the server end is.                                *)
(***************************************************************************)
VARIABLES
    mode,                   \* "loopback", "accept" or "connect"
    c2s,                    \* bytes sent to the server that its socket has not returned yet
    c2s_sent,               \* every byte the client end has sent
    s2c,                    \* bytes sent to the client that its socket has not returned yet
    s2c_sent,               \* every byte the server end has sent
    peer_closed,            \* the scripted peer has closed its end
    peer_replied,           \* the scripted server has sent its response
    \* accept_async and header_read
    s_pc,                   \* "idle", "scan" (header_read's loop), "respond", "done"
    s_bufreader,            \* buf_reader's internal buffer
    header_buf,
    websocket_header,
    s_key,                  \* parse_websocket_key's result
    sec_websockets_accept,
    s_stopped_by,           \* what ended header_read's loop: "none" (it has not ended),
                            \* "found", "eof", "timeout" or "ceiling"
    s_read_failed,          \* some read of the scan returned Ok(Err(_))
    s_result,               \* "pending", "Ok" or the Error returned
    s_reader,               \* buf_reader: "none", "held" (a local), "conn" (inside WSConnection), "dropped"
    s_writer,               \* write_half, likewise
    s_calls,                \* the calls accept_async has made on write_half, in order
    s_tasks,                \* background tasks started for the server's connection
    s_elapsed,              \* seconds since header_read began, up to MaxElapsed (kept in mode "trickle")
    s_reads,                \* reads of header_read that returned bytes (kept in mode "trickle")
    \* connect_async
    c_pc,                   \* "idle", "start", "dial", "write", "read", "done"
    addr,                   \* the URL given
    client_websocket_key,
    request,
    hostname,               \* host:port, what TcpStream::connect is given
    c_bufreader,            \* buf_reader's internal buffer
    buffer,                 \* Some(buffer after truncate), None before the read
    c_result,
    c_reader,
    c_writer,
    c_calls,                \* the calls connect_async has made to dial and on write_half, in order
    c_tasks                 \* background tasks started for the client's connection

net_vars == <<mode, c2s, c2s_sent, s2c, s2c_sent, peer_closed, peer_replied>>
srv_vars == <<s_pc, s_bufreader, header_buf, websocket_header, s_key, sec_websockets_accept,
              s_stopped_by, s_read_failed, s_result, s_reader, s_writer, s_calls, s_tasks,
              s_elapsed, s_reads>>
cli_vars == <<c_pc, addr, client_websocket_key, request, hostname, c_bufreader, buffer, c_result,
              c_reader, c_writer, c_calls, c_tasks>>
vars == <<net_vars, srv_vars, cli_vars>>

\* Both halves of split(stream) are gone: the socket is closed.
ServerClosed == (s_reader = "dropped" /\ s_writer = "dropped") \/ (mode = "connect" /\ peer_closed)
ClientClosed == (c_reader = "dropped" /\ c_writer = "dropped") \/ (mode = "accept" /\ peer_closed)

\* timeout(Duration::from_secs(10), ..): the seconds one read may wait.
READ_TIMEOUT_SECS == 10
\* The clock of the scan is followed up to this many seconds.
MaxElapsed == 30
\* The seconds a read of the socket waits for its bytes: none, or with a
\* trickling peer up to just under the timeout.
ReadDelays == IF mode = "trickle" THEN {0, READ_TIMEOUT_SECS - 1} ELSE {0}
\* The clock after d more seconds.
Elapsed(d) == IF mode = "trickle" THEN Min(MaxElapsed, s_elapsed + d) ELSE s_elapsed

\* The sizes one read of the socket may return when `avail` bytes are due and the
\* caller's buffer holds `cap`: any size that ends in the text, and inside the
\* filler run the sizes PadReadSizes.
PadReadSizes == {BUFREADER_CAP}
SockReadSizes(avail, cap) ==
    LET m == Min(BLen(avail), cap)
    IN  ((avail.pad + 1)..m) \cup {n \in PadReadSizes \cup {m} : 1 <= n /\ n <= m}

(***************************************************************************)
(* second_stage_handshake.  Its own tokio::spawn is commented out: all it  *)
(* does is WSConnection::new(buf_reader, write_half), which takes both     *)
(* halves.  WSConnection is defined in connection.rs; what its constructor *)
(* does with the halves follows the Connection Bootstrapper of the         *)
(* specification: one background task is started on the read half.         *)
(***************************************************************************)
\* A constructor that only stores the two halves.
WSConnection_new_stores(tasks) == tasks

\* WSConnection::new(buf_reader, write_half): the number of background tasks after it.
WSConnection_new(tasks) == tasks + 1

\* let ws_connection = WSConnection::new(buf_reader, write_half); Ok(ws_connection)
second_stage_handshake(tasks) == WSConnection_new(tasks)

(***************************************************************************)
(* header_read and parse_websocket_key.                                    *)
(***************************************************************************)
\* for line in header.lines(): the first line that starts with the label decides.
parse_websocket_key(header) ==
    LET ls == Lines(header)
        hits == {i \in 1..Len(ls) : StartsWith(ls[i], SEC_WEBSOCKETS_KEY)}
    IN  IF hits = {} THEN None
        ELSE LET i == CHOOSE j \in hits : \A k \in hits : j <= k
             IN  FirstToken(StripPrefix(ls[i], SEC_WEBSOCKETS_KEY))

\* A loop without its ceiling: `loop { ... }`.
ScanContinuesAlways(len) == TRUE

\* A scan with a deadline on its whole duration.
ScanContinuesUntilDeadline(len) == len <= HEADER_CAP /\ s_elapsed < 2 * READ_TIMEOUT_SECS

\* while header_buf.len() <= 1024 * 16
ScanContinues(len) == len <= HEADER_CAP

\* The arm None falls through to second_stage_handshake before the error is
\* returned: a handle is built on the failed attempt.
RejectNoKeyAfterBootstrap ==
    /\ s_pc' = "done"
    /\ s_result' = "NoSecWebsocketKey"
    /\ s_reader' = "conn"
    /\ s_writer' = "conn"

\* accept_async's arm None => Err(NoSecWebsocketKey)?: the locals buf_reader
\* and write_half are dropped.
RejectNoKey ==
    /\ s_pc' = "done"
    /\ s_result' = "NoSecWebsocketKey"
    /\ s_reader' = "dropped"
    /\ s_writer' = "dropped"

\* A marker line is answered whether or not it holds a token: a line without
\* one gets a response with an empty accept value.
ScanFindsAnswersAnyLine(header) ==
    \E key \in {parse_websocket_key(header)} :
        /\ websocket_header' = Some(header)
        /\ s_key' = key
        /\ sec_websockets_accept' = IF IsSome(key)
                                    THEN Some(generate_websocket_accept_value(Unwrap(key)))
                                    ELSE Some(<< >>)
        /\ s_pc' = "respond"
        /\ UNCHANGED <<s_result, s_reader, s_writer>>

\* header_read after a break with websocket_header = Some(header), and
\* accept_async's match on its result.
ScanFinds(header) ==
    \E key \in {parse_websocket_key(header)} :
        /\ websocket_header' = Some(header)
        /\ s_key' = key
        /\ IF IsSome(key)
           THEN /\ sec_websockets_accept' = Some(generate_websocket_accept_value(Unwrap(key)))
                /\ s_pc' = "respond"
                /\ UNCHANGED <<s_result, s_reader, s_writer>>
           ELSE /\ sec_websockets_accept' = None
                /\ RejectNoKey

\* header_read after its loop ended with websocket_header = None, and
\* accept_async's match on its result.
ScanGivesUp ==
    /\ websocket_header' = None
    /\ s_key' = None
    /\ sec_websockets_accept' = None
    /\ RejectNoKey

\* One pass of the loop in which read returns Ok(Ok(n)), n > 0.  buf_reader
\* serves its internal buffer first and reads the socket (k bytes, up to its
\* capacity) only when that is empty; tmp_buf takes up to TMP_BUF_LEN bytes.
\* Then extend_from_slice, from_utf8_lossy, find, and on a hit the first line
\* of s[start..] and the break.
SrvReadData ==
    /\ s_pc = "scan"
    /\ ScanContinues(BLen(header_buf))
    /\ BLen(s_bufreader) > 0 \/ BLen(c2s) > 0
    /\ \E k \in IF BLen(s_bufreader) > 0 THEN {0} ELSE SockReadSizes(c2s, BUFREADER_CAP) :
       \E filled \in {IF k = 0 THEN s_bufreader ELSE BTake(c2s, k)} :
       \E n \in {Min(TMP_BUF_LEN, BLen(filled))} :
       \E grown \in {BCat(header_buf, BTake(filled, n))} :
       \E s \in {from_utf8_lossy(grown.text)} :
       \E start \in {Find(s, SEC_WEBSOCKETS_KEY)} :
       \E delay \in IF k = 0 THEN {0} ELSE ReadDelays :
          /\ s_elapsed' = Elapsed(delay)
          /\ s_reads' = IF mode = "trickle" THEN s_reads + 1 ELSE s_reads
          /\ c2s' = BDrop(c2s, k)
          /\ s_bufreader' = BDrop(filled, n)
          /\ header_buf' = grown
          /\ IF start # 0
             THEN /\ s_stopped_by' = "found"
                  /\ \E header \in {FirstLine(From(s, start))} : ScanFinds(header)
             ELSE UNCHANGED <<s_stopped_by, s_pc, websocket_header, s_key,
                              sec_websockets_accept, s_result, s_reader, s_writer>>
    /\ UNCHANGED <<mode, c2s_sent, s2c, s2c_sent, peer_closed, peer_replied, s_read_failed>>
    /\ UNCHANGED <<s_calls, s_tasks>>
    /\ UNCHANGED cli_vars

\* read returns Ok(Ok(0)): the peer has closed and nothing is left.
SrvReadEof ==
    /\ s_pc = "scan"
    /\ ScanContinues(BLen(header_buf))
    /\ BLen(s_bufreader) = 0 /\ BLen(c2s) = 0 /\ ClientClosed
    /\ s_stopped_by' = "eof"
    /\ ScanGivesUp
    /\ UNCHANGED <<s_bufreader, header_buf, s_read_failed, s_calls, s_tasks, s_elapsed, s_reads>>
    /\ UNCHANGED net_vars
    /\ UNCHANGED cli_vars

\* A timeout that does not end the loop: `Err(_) => {}`.
SrvReadTimeoutContinues ==
    /\ mode = "accept"
    /\ s_pc = "scan"
    /\ s_stopped_by = "none"
    /\ BLen(s_bufreader) = 0
    /\ s_stopped_by' = "timeout"
    /\ UNCHANGED <<s_pc, s_bufreader, header_buf, websocket_header, s_key,
                   sec_websockets_accept, s_read_failed, s_result, s_reader, s_writer,
                   s_calls, s_tasks, s_elapsed, s_reads>>
    /\ UNCHANGED net_vars
    /\ UNCHANGED cli_vars

\* timeout(10 s) elapses: Err(_).  The bytes still due have not arrived; a
\* trickling peer lets this happen only when it has nothing more to send.
SrvReadTimeout ==
    /\ mode = "accept" \/ (mode = "trickle" /\ BLen(c2s) = 0)
    /\ s_pc = "scan"
    /\ ScanContinues(BLen(header_buf))
    /\ BLen(s_bufreader) = 0
    /\ ~(BLen(c2s) = 0 /\ ClientClosed)
    /\ s_stopped_by' = "timeout"
    /\ s_elapsed' = Elapsed(READ_TIMEOUT_SECS)
    /\ ScanGivesUp
    /\ UNCHANGED <<s_bufreader, header_buf, s_read_failed, s_calls, s_tasks, s_reads>>
    /\ UNCHANGED net_vars
    /\ UNCHANGED cli_vars

\* read returns Ok(Err(_)): the arm `_ => {}`, the loop goes on.
SrvReadError ==
    /\ mode = "accept"
    /\ s_pc = "scan"
    /\ ScanContinues(BLen(header_buf))
    /\ BLen(s_bufreader) = 0
    /\ s_read_failed' = TRUE
    /\ UNCHANGED <<s_stopped_by, s_pc, s_bufreader, header_buf, websocket_header, s_key,
                   sec_websockets_accept, s_result, s_reader, s_writer, s_calls, s_tasks,
                   s_elapsed, s_reads>>
    /\ UNCHANGED net_vars
    /\ UNCHANGED cli_vars

\* The loop condition header_buf.len() <= 1024 * 16 fails.
SrvCeiling ==
    /\ s_pc = "scan"
    /\ ~ScanContinues(BLen(header_buf))
    /\ s_stopped_by' = "ceiling"
    /\ ScanGivesUp
    /\ UNCHANGED <<s_bufreader, header_buf, s_read_failed, s_calls, s_tasks, s_elapsed, s_reads>>
    /\ UNCHANGED net_vars
    /\ UNCHANGED cli_vars

\* write_all(response) succeeds, then second_stage_handshake: WSConnection::new
\* takes buf_reader and write_half, Ok(ws_connection).
SrvRespond ==
    /\ s_pc = "respond"
    /\ LET response == HTTP_ACCEPT_RESPONSE(Unwrap(sec_websockets_accept))
       IN  /\ s2c' = s2c \o response
           /\ s2c_sent' = s2c_sent \o response
    /\ s_calls' = Append(s_calls, "write_all")
    /\ s_pc' = "done"
    /\ s_result' = "Ok"
    /\ s_reader' = "conn"
    /\ s_writer' = "conn"
    /\ s_tasks' = second_stage_handshake(s_tasks)
    /\ UNCHANGED <<s_elapsed, s_reads>>
    /\ UNCHANGED <<mode, c2s, c2s_sent, peer_closed, peer_replied>>
    /\ UNCHANGED <<s_bufreader, header_buf, websocket_header, s_key, sec_websockets_accept,
                   s_stopped_by, s_read_failed>>
    /\ UNCHANGED cli_vars

\* write_all(response) fails after k bytes: map_err(IOError)?, the locals are dropped.
SrvRespondError ==
    /\ mode = "accept"
    /\ s_pc = "respond"
    /\ LET response == HTTP_ACCEPT_RESPONSE(Unwrap(sec_websockets_accept))
       IN  \E k \in {0, 1, Len(response) - 1} :
              /\ s2c' = s2c \o SubSeq(response, 1, k)
              /\ s2c_sent' = s2c_sent \o SubSeq(response, 1, k)
    /\ s_calls' = Append(s_calls, "write_all")
    /\ s_pc' = "done"
    /\ s_result' = "IOError"
    /\ s_reader' = "dropped"
    /\ s_writer' = "dropped"
    /\ UNCHANGED <<s_tasks, s_elapsed, s_reads>>
    /\ UNCHANGED <<mode, c2s, c2s_sent, peer_closed, peer_replied>>
    /\ UNCHANGED <<s_bufreader, header_buf, websocket_header, s_key, sec_websockets_accept,
                   s_stopped_by, s_read_failed>>
    /\ UNCHANGED cli_vars

(***************************************************************************)
(* connect_async.                                                          *)
(***************************************************************************)
\* The accept value is not compared: any 101 response is taken.
ResponseVerdictStatusOnly(bytes, key) ==
    IF ~IsUtf8(bytes) THEN "FromUtf8Error"
    ELSE IF ~Contains(bytes, SWITCHING_PROTOCOLS) THEN "NoUpgrade"
    ELSE "Ok"

\* The two checks in the other order.
ResponseVerdictAcceptFirst(bytes, key) ==
    IF ~IsUtf8(bytes) THEN "FromUtf8Error"
    ELSE IF ~Contains(bytes, generate_websocket_accept_value(key)) THEN "InvalidAcceptKey"
    ELSE IF ~Contains(bytes, SWITCHING_PROTOCOLS) THEN "NoUpgrade"
    ELSE "Ok"

\* From the decoding of the response to the end of connect_async.
ResponseVerdict(bytes, key) ==
    IF ~IsUtf8(bytes) THEN "FromUtf8Error"
    ELSE IF ~Contains(bytes, SWITCHING_PROTOCOLS) THEN "NoUpgrade"
    ELSE IF ~Contains(bytes, generate_websocket_accept_value(key)) THEN "InvalidAcceptKey"
    ELSE "Ok"

\* generate_websocket_key() and parse_to_http_request(addr, &key)?
CliStart ==
    /\ c_pc = "start"
    /\ \E rb \in RandomBytes :
          LET key == generate_websocket_key(rb)
              parsed == parse_to_http_request(addr, key)
          IN  /\ client_websocket_key' = key
              /\ IF parsed.err # ""
                 THEN /\ c_pc' = "done"
                      /\ c_result' = parsed.err
                      /\ UNCHANGED <<request, hostname>>
                 ELSE /\ c_pc' = "dial"
                      /\ request' = parsed.request
                      /\ hostname' = parsed.host_with_port
                      /\ UNCHANGED c_result
    /\ UNCHANGED <<addr, c_bufreader, buffer, c_reader, c_writer, c_calls, c_tasks>>
    /\ UNCHANGED net_vars
    /\ UNCHANGED srv_vars

\* TcpStream::connect succeeds and split(stream); on the loopback the server end
\* of the stream goes to accept_async, which splits it too.
CliDial ==
    /\ c_pc = "dial"
    /\ c_pc' = "write"
    /\ c_calls' = Append(c_calls, "connect")
    /\ UNCHANGED c_tasks
    /\ c_reader' = "held"
    /\ c_writer' = "held"
    /\ IF mode = "loopback"
       THEN /\ s_pc' = "scan"
            /\ s_reader' = "held"
            /\ s_writer' = "held"
       ELSE UNCHANGED <<s_pc, s_reader, s_writer>>
    /\ UNCHANGED <<addr, hostname, client_websocket_key, request, c_bufreader, buffer,
                   c_result>>
    /\ UNCHANGED <<s_bufreader, header_buf, websocket_header, s_key, sec_websockets_accept,
                   s_stopped_by, s_read_failed, s_result, s_calls, s_tasks,
                   s_elapsed, s_reads>>
    /\ UNCHANGED net_vars

\* TcpStream::connect fails: `?` returns the error, no stream exists.
CliDialError ==
    /\ mode = "connect"
    /\ c_pc = "dial"
    /\ c_pc' = "done"
    /\ c_result' = "IOError"
    /\ c_calls' = Append(c_calls, "connect")
    /\ UNCHANGED c_tasks
    /\ UNCHANGED <<addr, hostname, client_websocket_key, request, c_bufreader, buffer,
                   c_reader, c_writer>>
    /\ UNCHANGED net_vars
    /\ UNCHANGED srv_vars

\* write_all(request.as_bytes()) succeeds.
CliWrite ==
    /\ c_pc = "write"
    /\ c2s' = BCat(c2s, Bytes(0, request))
    /\ c2s_sent' = BCat(c2s_sent, Bytes(0, request))
    /\ c_pc' = "read"
    /\ c_calls' = Append(c_calls, "write_all")
    /\ UNCHANGED c_tasks
    /\ UNCHANGED <<addr, hostname, client_websocket_key, request, c_bufreader, buffer, c_result,
                   c_reader, c_writer>>
    /\ UNCHANGED <<mode, s2c, s2c_sent, peer_closed, peer_replied>>
    /\ UNCHANGED srv_vars

\* write_all fails: `?` returns the error, buf_reader and write_half are dropped.
CliWriteError ==
    /\ mode = "connect"
    /\ c_pc = "write"
    /\ c_pc' = "done"
    /\ c_result' = "IOError"
    /\ c_calls' = Append(c_calls, "write_all")
    /\ UNCHANGED c_tasks
    /\ c_reader' = "dropped"
    /\ c_writer' = "dropped"
    /\ UNCHANGED <<addr, hostname, client_websocket_key, request, c_bufreader, buffer>>
    /\ UNCHANGED net_vars
    /\ UNCHANGED srv_vars

\* buf_reader.read(&mut buffer) returns Ok(number_read): one read of the socket
\* into buf_reader's internal buffer (k bytes, 0 at end of stream), of which
\* buffer takes up to RESPONSE_BUF_LEN; then truncate, decode, the two checks
\* and second_stage_handshake.
CliRead ==
    /\ c_pc = "read"
    /\ s2c # << >> \/ ServerClosed
    /\ \E k \in IF s2c = << >> THEN {0} ELSE 1..Min(Len(s2c), BUFREADER_CAP) :
          LET number_read == Min(RESPONSE_BUF_LEN, k)
              truncated == SubSeq(s2c, 1, number_read)
              verdict == ResponseVerdict(truncated, client_websocket_key)
          IN  /\ s2c' = SubSeq(s2c, k + 1, Len(s2c))
              /\ c_bufreader' = SubSeq(s2c, number_read + 1, k)
              /\ buffer' = Some(truncated)
              /\ c_result' = verdict
              /\ IF verdict = "Ok"
                 THEN /\ c_reader' = "conn" /\ c_writer' = "conn"
                      /\ c_tasks' = second_stage_handshake(c_tasks)
                 ELSE /\ c_reader' = "dropped" /\ c_writer' = "dropped"
                      /\ UNCHANGED c_tasks
    /\ c_pc' = "done"
    /\ UNCHANGED <<addr, hostname, client_websocket_key, request, c_calls>>
    /\ UNCHANGED <<mode, c2s, c2s_sent, s2c_sent, peer_closed, peer_replied>>
    /\ UNCHANGED srv_vars

\* buf_reader.read fails: `?` returns the error, the locals are dropped.
CliReadError ==
    /\ mode = "connect"
    /\ c_pc = "read"
    /\ c_pc' = "done"
    /\ c_result' = "IOError"
    /\ UNCHANGED <<c_calls, c_tasks>>
    /\ c_reader' = "dropped"
    /\ c_writer' = "dropped"
    /\ UNCHANGED <<addr, hostname, client_websocket_key, request, c_bufreader, buffer>>
    /\ UNCHANGED net_vars
    /\ UNCHANGED srv_vars

(***************************************************************************)
(* Scripted peers: the streams a client end sends to accept_async and the  *)
(* responses a server end sends to connect_async.                          *)
(***************************************************************************)
SampleKey == generate_websocket_key(
    <<116, 104, 101, 32, 115, 97, 109, 112, 108, 101, 32, 110, 111, 110, 99, 101>>)

\* GET /chat HTTP/1.1, Host: example.com, Sec-WebSocket-Key: <the sample key>
StreamUpgrade == <<"G", "E", "T", " ", "/", "c", "h", "a", "t", " ", "H", "T", "T", "P", "/", "1", ".", "1",
    "\r", "\n", "H", "o", "s", "t", ":", " ", "e", "x", "a", "m", "p", "l", "e", ".", "c",
    "o", "m", "\r", "\n", "S", "e", "c", "-", "W", "e", "b", "S", "o", "c", "k", "e", "t",
    "-", "K", "e", "y", ":", " ">>
    \o SampleKey \o CRLF \o CRLF
\* The same headers on a POST request line.
StreamPost == <<"P", "O", "S", "T", " ", "/", "c", "h", "a", "t", " ", "H", "T", "T", "P", "/",
    "1", ".", "1", "\r", "\n", "H", "o", "s", "t", ":", " ", "e", "x", "a", "m", "p", "l", "e",
    ".", "c", "o", "m", "\r", "\n", "S", "e", "c", "-", "W", "e", "b", "S", "o", "c", "k", "e",
    "t", "-", "K", "e", "y", ":", " ">> \o SampleKey \o CRLF \o CRLF
\* GET /Sec-WebSocket-Key:abc HTTP/1.1, Host, no key header
StreamKeyInRequestLine == <<"G", "E", "T", " ", "/", "S", "e", "c", "-", "W", "e", "b", "S",
    "o", "c", "k", "e", "t", "-", "K", "e", "y", ":", "a", "b", "c", " ", "H", "T", "T", "P",
    "/", "1", ".", "1", "\r", "\n", "H", "o", "s", "t", ":", " ", "e", "x", "a", "m", "p", "l",
    "e", ".", "c", "o", "m", "\r", "\n", "\r", "\n">>
\* GET / HTTP/1.1, X-Note: Sec-WebSocket-Key: zzz
StreamKeyInOtherHeader == <<"G", "E", "T", " ", "/", " ", "H", "T", "T", "P", "/", "1", ".",
    "1", "\r", "\n", "X", "-", "N", "o", "t", "e", ":", " ", "S", "e", "c", "-", "W", "e", "b",
    "S", "o", "c", "k", "e", "t", "-", "K", "e", "y", ":", " ", "z", "z", "z", "\r", "\n",
    "\r", "\n">>
\* GET / HTTP/1.1, Host, no key header
StreamNoKey == <<"G", "E", "T", " ", "/", " ", "H", "T", "T", "P", "/", "1", ".", "1", "\r",
    "\n", "H", "o", "s", "t", ":", " ", "e", "x", "a", "m", "p", "l", "e", ".", "c", "o", "m",
    "\r", "\n", "\r", "\n">>
\* GET / HTTP/1.1, Sec-WebSocket-Key: with no value
StreamEmptyKey == <<"G", "E", "T", " ", "/", " ", "H", "T", "T", "P", "/", "1", ".", "1", "\r",
    "\n", "S", "e", "c", "-", "W", "e", "b", "S", "o", "c", "k", "e", "t", "-", "K", "e", "y",
    ":", " ", "\r", "\n", "\r", "\n">>
\* A byte that is no UTF-8, then the request with an empty key.
StreamLossy == <<"<FF>">> \o StreamEmptyKey

\* The upgrade request and, sent right behind it, the first bytes of a frame
\* (0x81: FIN, text).
StreamUpgradeThenFrame == StreamUpgrade \o <<"<81>", "<02>">>

InboundStreams == {StreamUpgrade, StreamPost, StreamKeyInRequestLine, StreamKeyInOtherHeader,
                   StreamNoKey, StreamEmptyKey, StreamLossy, StreamUpgradeThenFrame, << >>}

\* HTTP/1.1 400 Bad Request
ResponseBadRequest == <<"H", "T", "T", "P", "/", "1", ".", "1", " ", "4", "0", "0", " ", "B",
    "a", "d", " ", "R", "e", "q", "u", "e", "s", "t", "\r", "\n", "\r", "\n">>
\* HTTP/1.1 200 OK, X-Was: 101 Switching Protocols, Sec-WebSocket-Accept: <accept>
ResponseStatusElsewhere(accept_value) == <<"H", "T", "T", "P", "/", "1", ".", "1", " ", "2",
    "0", "0", " ", "O", "K", "\r", "\n", "X", "-", "W", "a", "s", ":", " ", "1", "0", "1", " ",
    "S", "w", "i", "t", "c", "h", "i", "n", "g", " ", "P", "r", "o", "t", "o", "c", "o", "l",
    "s", "\r", "\n", "S", "e", "c", "-", "W", "e", "b", "S", "o", "c", "k", "e", "t", "-", "A",
    "c", "c", "e", "p", "t", ":", " ">> \o accept_value \o CRLF \o CRLF

\* The bytes of a frame that follows the response: an ASCII header byte and n
\* payload bytes.
ShortFrame == 3
MaxFrame == 90
FrameBytes(n) == <<"<02>">> \o [i \in 1..n |-> "a"]
\* A frame whose first byte is 0x81 (FIN, text), no UTF-8 by itself.
FinTextFrame == <<"<81>", "<02>", "h", "i">>

\* The responses of a server that computes `accept` for the key it is sent, and
\* `wrong` for another key.
PeerResponses(accept, wrong) ==
    { HTTP_ACCEPT_RESPONSE(accept),
      HTTP_ACCEPT_RESPONSE(wrong),
      ResponseBadRequest,
      ResponseStatusElsewhere(accept),
      HTTP_ACCEPT_RESPONSE(accept) \o FrameBytes(ShortFrame),
      HTTP_ACCEPT_RESPONSE(accept) \o FrameBytes(MaxFrame),
      HTTP_ACCEPT_RESPONSE(accept) \o FinTextFrame,
      <<"<FF>">> \o ResponseBadRequest,
      << >> }

\* The scripted server answers the request, and may close.
PeerRespond ==
    /\ mode = "connect"
    /\ ~peer_replied
    /\ c_pc = "read"
    /\ \E accept \in {generate_websocket_accept_value(client_websocket_key)},
          wrong \in {generate_websocket_accept_value(k) : k \in GeneratedKeys \ {client_websocket_key}},
          closes \in BOOLEAN :
          \E response \in PeerResponses(accept, wrong) :
              /\ s2c' = response
              /\ s2c_sent' = response
              /\ peer_closed' = closes
    /\ peer_replied' = TRUE
    /\ UNCHANGED <<mode, c2s, c2s_sent>>
    /\ UNCHANGED srv_vars
    /\ UNCHANGED cli_vars

\* The scripted client closes its end; the server's reads see it once every
\* byte sent has been returned.
PeerClose ==
    /\ mode = "accept"
    /\ ~peer_closed
    /\ BLen(c2s) = 0
    /\ peer_closed' = TRUE
    /\ UNCHANGED <<mode, c2s, c2s_sent, s2c, s2c_sent, peer_replied>>
    /\ UNCHANGED srv_vars
    /\ UNCHANGED cli_vars

(***************************************************************************)
(* Specifications.                                                         *)
(***************************************************************************)
InitIdle ==
    /\ s2c = << >> /\ s2c_sent = << >>
    /\ peer_replied = FALSE
    /\ s_bufreader = NoBytes /\ header_buf = NoBytes
    /\ websocket_header = None /\ s_key = None /\ sec_websockets_accept = None
    /\ s_stopped_by = "none" /\ s_read_failed = FALSE /\ s_result = "pending"
    /\ client_websocket_key = << >> /\ request = << >> /\ hostname = << >>
    /\ c_bufreader = << >> /\ buffer = None /\ c_result = "pending"
    /\ c_reader = "none" /\ c_writer = "none"
    /\ s_calls = << >> /\ s_tasks = 0
    /\ s_elapsed = 0 /\ s_reads = 0
    /\ c_calls = << >> /\ c_tasks = 0

\* connect_async(addr) against accept_async on one loopback stream.
InitLoopback ==
    /\ InitIdle
    /\ mode = "loopback"
    /\ c2s = NoBytes /\ c2s_sent = NoBytes
    /\ peer_closed = FALSE
    /\ addr = UrlWsChat
    /\ c_pc = "start"
    /\ s_pc = "idle" /\ s_reader = "none" /\ s_writer = "none"

\* connect_async(addr) against a scripted server.
InitConnect ==
    /\ InitIdle
    /\ mode = "connect"
    /\ c2s = NoBytes /\ c2s_sent = NoBytes
    /\ peer_closed = FALSE
    /\ addr \in Urls
    /\ c_pc = "start"
    /\ s_pc = "idle" /\ s_reader = "none" /\ s_writer = "none"

\* Streams longer than the ceiling of header_read: a run of filler bytes, then
\* nothing, a request without the key, or the upgrade request.
LongStreams ==
    { Bytes(HEADER_CAP + 1, << >>),
      Bytes(HEADER_CAP + 1, StreamNoKey),
      Bytes(HEADER_CAP, StreamUpgrade),
      Bytes(HEADER_CAP + TMP_BUF_LEN, StreamUpgrade) }

\* accept_async(stream) against a scripted client that has sent a stream.
InitAccept ==
    /\ InitIdle
    /\ mode = "accept"
    /\ c2s \in {Bytes(0, s) : s \in InboundStreams} \cup LongStreams
    /\ c2s_sent = c2s
    /\ peer_closed = FALSE
    /\ addr = UrlGarbage
    /\ c_pc = "idle"
    /\ s_pc = "scan" /\ s_reader = "held" /\ s_writer = "held"

Init == InitLoopback \/ InitConnect \/ InitAccept

Next ==
    \/ CliStart
    \/ CliDial
    \/ CliDialError
    \/ CliWrite
    \/ CliWriteError
    \/ CliRead
    \/ CliReadError
    \/ PeerRespond
    \/ PeerClose
    \/ SrvReadData
    \/ SrvReadEof
    \/ SrvReadTimeout
    \/ SrvReadError
    \/ SrvCeiling
    \/ SrvRespond
    \/ SrvRespondError

Spec == Init /\ [][Next]_vars

\* accept_async alone, against the scripted clients.  A read for which bytes are
\* due returns, and the loop condition is evaluated: the runtime polls the task.
NextAccept ==
    \/ SrvReadData
    \/ SrvReadEof
    \/ SrvReadTimeout
    \/ SrvReadError
    \/ SrvCeiling
    \/ SrvRespond
    \/ SrvRespondError
    \/ PeerClose

AcceptSpec ==
    /\ InitAccept
    /\ [][NextAccept]_vars
    /\ WF_vars(SrvReadData)
    /\ WF_vars(SrvCeiling)

\* accept_async against a peer that trickles: every read of the socket returns
\* at least one byte, some of them just before the timeout, until the peer has
\* sent its whole stream; then it stays silent.
InitTrickle ==
    /\ InitIdle
    /\ mode = "trickle"
    /\ c2s \in {Bytes(0, StreamKeyInOtherHeader), Bytes(0, StreamNoKey),
                Bytes(HEADER_CAP + 1, << >>)}
    /\ c2s_sent = c2s
    /\ peer_closed = FALSE
    /\ addr = UrlGarbage
    /\ c_pc = "idle"
    /\ s_pc = "scan" /\ s_reader = "held" /\ s_writer = "held"

NextTrickle ==
    \/ SrvReadData
    \/ SrvReadTimeout
    \/ SrvCeiling
    \/ SrvRespond

TrickleSpec == InitTrickle /\ [][NextTrickle]_vars

(***************************************************************************)
(* Properties.                                                             *)
(***************************************************************************)
\* C1: on the loopback, however the transport divides the request and the
\* response among the reads and however the two sides interleave,
\* connect_async and accept_async both return a connection handle and neither
\* returns an error.
C1_HandshakeConverges ==
    mode = "loopback" =>
        /\ c_result \in {"pending", "Ok"}
        /\ s_result \in {"pending", "Ok"}

\* C2: when the inbound stream has a line `Sec-WebSocket-Key: <k>` with a
\* non-empty token k and header_read has found the marker, the key it extracted
\* is the whole token k and the accept value is that of k, whatever the
\* division of the stream into reads.
C2_FullKeyExtracted ==
    (s_stopped_by = "found" /\ IsSome(parse_websocket_key(c2s_sent.text))) =>
        /\ s_key = parse_websocket_key(c2s_sent.text)
        /\ sec_websockets_accept =
               Some(generate_websocket_accept_value(Unwrap(parse_websocket_key(c2s_sent.text))))

\* C3: connect_async returns a handle only if the response it read (the decoded
\* text of the bytes its one read returned) contains `101 Switching Protocols`
\* and the accept value of the key this call generated and wrote in its request;
\* a response without the status text gives NoUpgrade, a response with it and
\* without the accept value gives InvalidAcceptKey.
C3_ClientVerification ==
    LET decoded == c_pc = "done" /\ IsSome(buffer) /\ IsUtf8(Unwrap(buffer))
        has_status == Contains(Unwrap(buffer), SWITCHING_PROTOCOLS)
        has_accept == Contains(Unwrap(buffer),
                               generate_websocket_accept_value(client_websocket_key))
    IN  /\ c_result = "Ok" =>
               /\ decoded /\ has_status /\ has_accept
               /\ Contains(request, SEC_WEBSOCKETS_KEY \o <<" ">> \o client_websocket_key \o CRLF)
        /\ (decoded /\ ~has_status) => c_result = "NoUpgrade"
        /\ (decoded /\ has_status /\ ~has_accept) => c_result = "InvalidAcceptKey"

\* A response with the status text and the accept value of another key was
\* refused with InvalidAcceptKey.
C3_Witness ==
    /\ c_pc = "done"
    /\ c_result = "InvalidAcceptKey"
    /\ IsSome(buffer)
    /\ Contains(Unwrap(buffer), SWITCHING_PROTOCOLS)

\* C4: connect_async returns NoUpgrade for every response whose first line, the
\* status line, does not contain `101 Switching Protocols`, whatever follows it.
C4_StatusLineDecides ==
    (/\ c_pc = "done"
     /\ IsSome(buffer)
     /\ IsUtf8(Unwrap(buffer))
     /\ ~Contains(FirstLine(Unwrap(buffer)), SWITCHING_PROTOCOLS)) => c_result = "NoUpgrade"

\* A GET request line, and after it a header line `Sec-WebSocket-Key:` with a
\* non-empty token.
WellFormedUpgradeRequest(stream) ==
    LET ls == Lines(stream.text)
    IN  /\ stream.pad = 0
        /\ Len(ls) >= 1
        /\ StartsWith(ls[1], <<"G", "E", "T", " ">>)
        /\ \E i \in 2..Len(ls) :
              /\ StartsWith(ls[i], SEC_WEBSOCKETS_KEY)
              /\ IsSome(FirstToken(StripPrefix(ls[i], SEC_WEBSOCKETS_KEY)))

\* C5: for every inbound stream that is not a well-formed GET upgrade request
\* with a usable key, accept_async returns an error: no handle, and no byte of a
\* 101 response.
C5_RejectsOtherRequests ==
    ~WellFormedUpgradeRequest(c2s_sent) =>
        /\ s_result # "Ok"
        /\ s_reader # "conn"
        /\ s2c_sent = << >>

\* A stream that delivers more bytes than the ceiling and never holds the marker.
OverCeilingWithoutMarker ==
    /\ mode = "accept"
    /\ BLen(c2s_sent) > HEADER_CAP
    /\ ~Contains(c2s_sent.text, SEC_WEBSOCKETS_KEY)

\* C6: for a stream that never holds the marker and delivers more bytes than
\* the ceiling, in any division into reads, the scan ends and accept_async
\* returns NoSecWebsocketKey.
C6_ScanCeilingTerminates ==
    OverCeilingWithoutMarker ~> (s_pc = "done" /\ s_result = "NoSecWebsocketKey")

\* The loop condition ended the scan of such a stream.
C6_Witness ==
    /\ OverCeilingWithoutMarker
    /\ s_stopped_by = "ceiling"
    /\ s_result = "NoSecWebsocketKey"

\* C7: when a read times out or returns zero bytes before the marker has been
\* found, the scan has stopped at that read, no further read can be made, and
\* accept_async has returned NoSecWebsocketKey.
C7_StopsOnTimeoutOrClose ==
    s_stopped_by \in {"timeout", "eof"} =>
        /\ s_pc = "done"
        /\ s_result = "NoSecWebsocketKey"
        /\ websocket_header = None
        /\ ~ENABLED (SrvReadData \/ SrvReadEof \/ SrvReadTimeout \/ SrvReadError)

\* A read timed out after part of the stream had been read.
C7_Witness ==
    /\ s_stopped_by = "timeout"
    /\ BLen(header_buf) > 0
    /\ BLen(c2s) > 0
    /\ s_result = "NoSecWebsocketKey"

\* C8: once a read of the header scan has failed with an I/O error, the accept
\* attempt has ended with an error, the transport is not read again and no
\* handle is returned.
C8_ReadFailureIsFatal ==
    s_read_failed =>
        /\ s_pc = "done"
        /\ s_result \notin {"pending", "Ok"}
        /\ s_reader # "conn"

\* C9: when connect_async or accept_async has ended with an error, no handle
\* has been built (second_stage_handshake was not entered) and no half of the
\* transport is left: both were dropped, or no stream was ever opened.
C9_NoHandleOnFailure ==
    /\ (s_pc = "done" /\ s_result # "Ok") =>
           s_reader = "dropped" /\ s_writer = "dropped"
    /\ (c_pc = "done" /\ c_result # "Ok") =>
           \/ c_reader = "dropped" /\ c_writer = "dropped"
           \/ c_reader = "none" /\ c_writer = "none" /\ c2s_sent = NoBytes
    /\ (s_reader = "conn" \/ s_writer = "conn") => s_result = "Ok"
    /\ (c_reader = "conn" \/ c_writer = "conn") => c_result = "Ok"

\* On the loopback the server ended with NoSecWebsocketKey and the client, which
\* then read the end of the stream, with NoUpgrade; all four halves are dropped.
C9_Witness ==
    /\ s_result = "NoSecWebsocketKey"
    /\ c_result = "NoUpgrade"
    /\ s_reader = "dropped" /\ s_writer = "dropped"
    /\ c_reader = "dropped" /\ c_writer = "dropped"

\* What the server sent after the blank line that ends its response.
AfterResponse(sent) ==
    LET end == Find(sent, CRLF \o CRLF)
    IN  IF end = 0 THEN << >> ELSE From(sent, end + 4)

\* s ends with t.
EndsWith(s, t) ==
    /\ Len(t) <= Len(s)
    /\ SubSeq(s, Len(s) - Len(t) + 1, Len(s)) = t

\* C10: after a successful connect_async, the bytes the frame decoder will get
\* (those held by buf_reader, then those the socket has not returned yet) end
\* with the bytes the server sent after its response, each once and in order:
\* the read of the response has consumed none of them.
C10_NoByteLostOnHandOff ==
    c_result = "Ok" => EndsWith(c_bufreader \o s2c, AfterResponse(s2c_sent))

\* Every write_all of `calls` is followed at once by a flush.
WriteThenFlush(calls) ==
    \A i \in 1..Len(calls) :
        calls[i] = "write_all" => (i < Len(calls) /\ calls[i + 1] = "flush")

\* C11: when accept_async hands the transport to the bootstrap step it has
\* written the whole 101 response and flushed it, and when connect_async reads
\* the response it has written the whole request and flushed it.
C11_WriteThenFlush ==
    /\ s_reader = "conn" =>
           /\ EndsWith(s2c_sent, HTTP_ACCEPT_RESPONSE(Unwrap(sec_websockets_accept)))
           /\ WriteThenFlush(s_calls)
    /\ (c_pc = "read" \/ IsSome(buffer)) =>
           /\ EndsWith(c2s_sent.text, request)
           /\ WriteThenFlush(c_calls)

\* C12: for every key k of which a 101 response carries the accept value, a
\* client that read this response has accepted it when k is the key it
\* generated, and has refused it with InvalidAcceptKey when k is another key
\* (the key of another call, or the key a server extracted in part).
C12_AcceptRoundTrip ==
    \A k \in DOMAIN AcceptCache :
        (c_pc = "done" /\ buffer = Some(HTTP_ACCEPT_RESPONSE(generate_websocket_accept_value(k)))) =>
            c_result = (IF k = client_websocket_key THEN "Ok" ELSE "InvalidAcceptKey")

\* On the loopback the server extracted a part of the key only and answered
\* with its accept value; the client read the whole response and refused it.
C12_Witness ==
    /\ mode = "loopback"
    /\ s_result = "Ok"
    /\ IsSome(s_key) /\ Unwrap(s_key) # client_websocket_key
    /\ buffer = Some(s2c_sent)
    /\ c_result = "InvalidAcceptKey"

\* example.com:80
ExampleCom80 ==
    <<"e", "x", "a", "m", "p", "l", "e", ".", "c", "o", "m", ":", "8", "0">>
\* example.com:443
ExampleCom443 ==
    <<"e", "x", "a", "m", "p", "l", "e", ".", "c", "o", "m", ":", "4", "4", "3">>
\* example.com:9002
ExampleCom9002 ==
    <<"e", "x", "a", "m", "p", "l", "e", ".", "c", "o", "m", ":", "9", "0", "0", "2">>
\* GET /chat?x=1 HTTP/1.1
RequestLineChatQuery ==
    <<"G", "E", "T", " ", "/", "c", "h", "a", "t", "?", "x", "=", "1", " ", "H", "T", "T", "P",
    "/", "1", ".", "1", "\r", "\n">>
\* GET /chat HTTP/1.1
RequestLineChat ==
    <<"G", "E", "T", " ", "/", "c", "h", "a", "t", " ", "H", "T", "T", "P", "/", "1", ".", "1",
    "\r", "\n">>

\* C13: for a URL of scheme ws or wss with a host, parse_to_http_request gives
\* use_tls = FALSE and port 80 for ws, use_tls = TRUE and port 443 for wss, the
\* port written in the URL when there is one, and as request path the path of
\* the URL followed by `?query` exactly when the URL has a query.
C13_EndpointResolution ==
    (c_pc \notin {"idle", "start"} /\ addr.parses /\ addr.scheme \in {"ws", "wss"}
                                   /\ IsSome(addr.host)) =>
        LET result == parse_to_http_request(addr, client_websocket_key)
            port == IF IsSome(addr.port) THEN Unwrap(addr.port)
                    ELSE IF addr.scheme = "wss" THEN 443 ELSE 80
            path == IF IsSome(addr.query) THEN addr.path \o <<"?">> \o Unwrap(addr.query)
                    ELSE addr.path
        IN  /\ result.err = ""
            /\ result.use_tls = (addr.scheme = "wss")
            /\ hostname = Unwrap(addr.host) \o <<":">> \o ToDecimal(port)
            /\ StartsWith(request, <<"G", "E", "T", " ">> \o path \o <<" ", "H", "T", "T", "P">>)
            /\ addr = UrlWsChat =>
                   /\ hostname = ExampleCom80
                   /\ StartsWith(request, RequestLineChatQuery)
                   /\ ~result.use_tls
            /\ addr = UrlWssChat =>
                   /\ hostname = ExampleCom443
                   /\ StartsWith(request, RequestLineChat)
                   /\ result.use_tls
            /\ addr = UrlWsPort => hostname = ExampleCom9002

\* connect_async has resolved wss://example.com:8443/chat?x=1 and dialled.
C13_Witness ==
    /\ addr = UrlWssPort
    /\ c_pc = "write"
    /\ hostname # << >>
    /\ c_calls = <<"connect">>

\* C14: in every state of the server scan, whatever the stream and its division
\* into reads, header_buf holds at most 16 KiB.
C14_HeaderBufferCeiling ==
    BLen(header_buf) <= 16384

\* What the client end sent after the blank line that ends its request.
AfterRequest(sent) ==
    LET end == Find(sent.text, CRLF \o CRLF)
    IN  IF sent.pad > 0 \/ end = 0 THEN NoBytes ELSE Bytes(0, From(sent.text, end + 4))

\* C15: after a successful accept_async, the bytes the frame decoder will get
\* (those held by buf_reader, then those the socket has not returned yet) are
\* the bytes sent after the blank line that ends the request: no byte of the
\* request is among them and none of the bytes behind the request is missing.
C15_ServerHandOffPosition ==
    (s_result = "Ok" /\ WellFormedUpgradeRequest(c2s_sent)) =>
        BCat(s_bufreader, c2s) = AfterRequest(c2s_sent)

\* C15, its second half alone: the bytes sent behind the request are all still
\* to be had from buf_reader or the socket.
C15_BytesBehindRequestKept ==
    (s_result = "Ok" /\ c2s_sent.text = StreamUpgradeThenFrame) =>
        EndsWith(BCat(s_bufreader, c2s).text, AfterRequest(c2s_sent).text)

C17_TimeoutIsPerRead ==
    /\ s_stopped_by = "ceiling" => BLen(header_buf) > HEADER_CAP
    /\ s_stopped_by = "found" =>
           Contains(from_utf8_lossy(header_buf.text), SEC_WEBSOCKETS_KEY)
    /\ s_stopped_by = "timeout" => (BLen(c2s) = 0 /\ BLen(s_bufreader) = 0)
    /\ s_stopped_by = "none" => s_pc = "scan"
    /\ s_reads <= BLen(header_buf)
    /\ BLen(header_buf) <= HEADER_CAP + TMP_BUF_LEN
    /\ (s_pc = "scan" /\ BLen(header_buf) <= HEADER_CAP
                      /\ (BLen(c2s) > 0 \/ BLen(s_bufreader) > 0)) => ENABLED SrvReadData

\* The scan has lasted longer than the timeout of one read, is still reading,
\* and every read so far has brought bytes.
C17_Witness ==
    /\ mode = "trickle"
    /\ s_pc = "scan"
    /\ s_elapsed > 2 * READ_TIMEOUT_SECS
    /\ s_reads >= 3
    /\ BLen(c2s) > 0

\* C18: when accept_async has failed with NoSecWebsocketKey it has written no
\* byte and made no call on write_half; it calls write_all at most once, and
\* only with a key token extracted, the bytes written being the 101 response
\* for that token or, when the write failed, a part of it.
C18_NoResponseOnRejection ==
    /\ s_result = "NoSecWebsocketKey" => (s2c_sent = << >> /\ s_calls = << >>)
    /\ Len(s_calls) <= 1
    /\ (s_calls # << >> \/ s2c_sent # << >>) =>
           /\ IsSome(s_key)
           /\ s_calls = <<"write_all">>
           /\ StartsWith(HTTP_ACCEPT_RESPONSE(generate_websocket_accept_value(Unwrap(s_key))),
                         s2c_sent)

\* The marker line was found, it held no token, and accept_async has failed
\* with NoSecWebsocketKey.
C18_Witness ==
    /\ s_stopped_by = "found"
    /\ IsSome(websocket_header)
    /\ s_key = None
    /\ s_result = "NoSecWebsocketKey"
    /\ s2c_sent = << >>

\* C19: connect_async given a URL of a scheme other than ws and wss has failed
\* with InvalidSchemeURL, and given a ws or wss URL without a host has failed
\* with URLNoHost, in both cases without a dial and without a byte written;
\* and no call dials more than once.
C19_ResolutionErrorsFirst ==
    /\ (c_pc \notin {"idle", "start"} /\ addr.scheme \notin {"ws", "wss", ""}) =>
           /\ c_pc = "done" /\ c_result = "InvalidSchemeURL"
           /\ c_calls = << >> /\ c2s_sent = NoBytes
    /\ (c_pc \notin {"idle", "start"} /\ addr.scheme \in {"ws", "wss"} /\ ~IsSome(addr.host)) =>
           /\ c_pc = "done" /\ c_result = "URLNoHost"
           /\ c_calls = << >> /\ c2s_sent = NoBytes
    /\ Len(SelectSeq(c_calls, LAMBDA call : call = "connect")) <= 1

\* C19 without the kind of the error: every URL that is not a ws or wss URL
\* with a host ends connect_async in an error without a dial and without a
\* byte written, and no call dials more than once.
C19_NoNetworkBeforeResolution ==
    /\ (c_pc \notin {"idle", "start"}
           /\ (~addr.parses \/ addr.scheme \notin {"ws", "wss"} \/ ~IsSome(addr.host))) =>
           /\ c_pc = "done" /\ c_result \in {"UrlParseError", "InvalidSchemeURL", "URLNoHost"}
           /\ c_calls = << >> /\ c2s_sent = NoBytes /\ c_reader = "none"
    /\ Len(SelectSeq(c_calls, LAMBDA call : call = "connect")) <= 1

====
